---------------------------- MODULE Spec2Model ----------------------------
(***************************************************************************)
(* Model of trunk/xml/longbarrel_cmsIdealGeometryXML_cff.py: the loading   *)
(* of the configuration fragment (lines 1, 3 and 5-107) and the list of    *)
(* geometry XML files it assigns to XMLIdealGeometryESSource.geomXMLFiles, *)
(* followed by the consumer that the specification describes: a loader     *)
(* that reads the list front to back, and an export of the list to an      *)
(* interchange format (newline-delimited text, JSON) and back.             *)
(*                                                                         *)
(* A path string is modelled as the sequence of its characters, so that    *)
(* questions about the characters of an entry (its file name, a substring, *)
(* a separator) are decided by the model and not assumed.                  *)
(***************************************************************************)
EXTENDS Integers, Sequences, FiniteSets

(* ------------------------------------------------------------------ *)
(* Characters and strings                                             *)
(* ------------------------------------------------------------------ *)

SLASH == "/"
NEWLINE == "\n"
QUOTE == "\""
BACKSLASH == "\\"

UpperCase ==
    {"A","B","C","D","E","F","G","H","I","J","K","L","M",
     "N","O","P","Q","R","S","T","U","V","W","X","Y","Z"}

LowerCase ==
    {"a","b","c","d","e","f","g","h","i","j","k","l","m",
     "n","o","p","q","r","s","t","u","v","w","x","y","z"}

Digits == {"0","1","2","3","4","5","6","7","8","9"}

(* str.lower() on one character. *)
LowerChar(c) ==
    CASE c = "A" -> "a" [] c = "B" -> "b" [] c = "C" -> "c" [] c = "D" -> "d"
      [] c = "E" -> "e" [] c = "F" -> "f" [] c = "G" -> "g" [] c = "H" -> "h"
      [] c = "I" -> "i" [] c = "J" -> "j" [] c = "K" -> "k" [] c = "L" -> "l"
      [] c = "M" -> "m" [] c = "N" -> "n" [] c = "O" -> "o" [] c = "P" -> "p"
      [] c = "Q" -> "q" [] c = "R" -> "r" [] c = "S" -> "s" [] c = "T" -> "t"
      [] c = "U" -> "u" [] c = "V" -> "v" [] c = "W" -> "w" [] c = "X" -> "x"
      [] c = "Y" -> "y" [] c = "Z" -> "z" [] OTHER -> c

Lower(s) == [i \in 1..Len(s) |-> LowerChar(s[i])]

(* sub in s *)
Contains(s, sub) ==
    \E i \in 1..(Len(s) - Len(sub) + 1) : SubSeq(s, i, i + Len(sub) - 1) = sub

(* s.endswith(suffix) *)
EndsWith(s, suffix) ==
    /\ Len(s) >= Len(suffix)
    /\ SubSeq(s, Len(s) - Len(suffix) + 1, Len(s)) = suffix

(* The last path component of p: what follows its last '/'. *)
BaseName(p) ==
    LET slashes == {i \in 1..Len(p) : p[i] = SLASH}
        last    == IF slashes = {} THEN 0
                   ELSE CHOOSE i \in slashes : \A j \in slashes : j <= i
    IN  SubSeq(p, last + 1, Len(p))

Elems(L) == {L[i] : i \in 1..Len(L)}

(* ------------------------------------------------------------------ *)
(* The list literal of the file                                       *)
(* ------------------------------------------------------------------ *)

(* The directories the entries live in, as character sequences. *)
dir_longbarrel ==
    <<"S","L","H","C","U","p","g","r","a","d","e","S","i","m","u","l","a","t","i","o","n","s","/","G","e","o","m","e","t","r","y","/","d","a","t","a","/","l","o","n","g","b","a","r","r","e","l","/">>
dir_CMSCommonData ==
    <<"G","e","o","m","e","t","r","y","/","C","M","S","C","o","m","m","o","n","D","a","t","a","/","d","a","t","a","/">>
dir_normal ==
    <<"G","e","o","m","e","t","r","y","/","C","M","S","C","o","m","m","o","n","D","a","t","a","/","d","a","t","a","/","n","o","r","m","a","l","/">>
dir_TrackerCommonData ==
    <<"G","e","o","m","e","t","r","y","/","T","r","a","c","k","e","r","C","o","m","m","o","n","D","a","t","a","/","d","a","t","a","/">>
dir_EcalCommonData ==
    <<"G","e","o","m","e","t","r","y","/","E","c","a","l","C","o","m","m","o","n","D","a","t","a","/","d","a","t","a","/">>
dir_HcalCommonData ==
    <<"G","e","o","m","e","t","r","y","/","H","c","a","l","C","o","m","m","o","n","D","a","t","a","/","d","a","t","a","/">>
dir_MuonCommonData ==
    <<"G","e","o","m","e","t","r","y","/","M","u","o","n","C","o","m","m","o","n","D","a","t","a","/","d","a","t","a","/">>
dir_ForwardCommonData ==
    <<"G","e","o","m","e","t","r","y","/","F","o","r","w","a","r","d","C","o","m","m","o","n","D","a","t","a","/","d","a","t","a","/">>
dir_EcalSimData ==
    <<"G","e","o","m","e","t","r","y","/","E","c","a","l","S","i","m","D","a","t","a","/","d","a","t","a","/">>
dir_HcalSimData ==
    <<"G","e","o","m","e","t","r","y","/","H","c","a","l","S","i","m","D","a","t","a","/","d","a","t","a","/">>
dir_MuonSimData ==
    <<"G","e","o","m","e","t","r","y","/","M","u","o","n","S","i","m","D","a","t","a","/","d","a","t","a","/">>
dir_DTGeometryBuilder ==
    <<"G","e","o","m","e","t","r","y","/","D","T","G","e","o","m","e","t","r","y","B","u","i","l","d","e","r","/","d","a","t","a","/">>
dir_CSCGeometryBuilder ==
    <<"G","e","o","m","e","t","r","y","/","C","S","C","G","e","o","m","e","t","r","y","B","u","i","l","d","e","r","/","d","a","t","a","/">>
dir_RPCGeometryBuilder ==
    <<"G","e","o","m","e","t","r","y","/","R","P","C","G","e","o","m","e","t","r","y","B","u","i","l","d","e","r","/","d","a","t","a","/">>
dir_TrackerSimData ==
    <<"G","e","o","m","e","t","r","y","/","T","r","a","c","k","e","r","S","i","m","D","a","t","a","/","d","a","t","a","/">>

(* The string literals of lines 6-106, in source order: one entry per line. *)
geomXMLFilesLiteral ==
    <<
    dir_longbarrel \o <<"m","a","t","e","r","i","a","l","s",".","x","m","l">>,  \* 6
    dir_CMSCommonData \o <<"r","o","t","a","t","i","o","n","s",".","x","m","l">>,  \* 7
    dir_normal \o <<"c","m","s","e","x","t","e","n","t",".","x","m","l">>,  \* 8
    dir_CMSCommonData \o <<"c","m","s",".","x","m","l">>,  \* 9
    dir_CMSCommonData \o <<"c","m","s","M","o","t","h","e","r",".","x","m","l">>,  \* 10
    dir_CMSCommonData \o <<"c","m","s","T","r","a","c","k","e","r",".","x","m","l">>,  \* 11
    dir_CMSCommonData \o <<"c","a","l","o","B","a","s","e",".","x","m","l">>,  \* 12
    dir_CMSCommonData \o <<"c","m","s","C","a","l","o",".","x","m","l">>,  \* 13
    dir_CMSCommonData \o <<"m","u","o","n","B","a","s","e",".","x","m","l">>,  \* 14
    dir_CMSCommonData \o <<"c","m","s","M","u","o","n",".","x","m","l">>,  \* 15
    dir_CMSCommonData \o <<"m","g","n","t",".","x","m","l">>,  \* 16
    dir_CMSCommonData \o <<"b","e","a","m","p","i","p","e",".","x","m","l">>,  \* 17
    dir_CMSCommonData \o <<"c","m","s","B","e","a","m",".","x","m","l">>,  \* 18
    dir_CMSCommonData \o <<"m","u","o","n","M","B",".","x","m","l">>,  \* 19
    dir_CMSCommonData \o <<"m","u","o","n","M","a","g","n","e","t",".","x","m","l">>,  \* 20
    dir_TrackerCommonData \o <<"p","i","x","f","w","d","M","a","t","e","r","i","a","l","s",".","x","m","l">>,  \* 21
    dir_TrackerCommonData \o <<"p","i","x","f","w","d","C","o","m","m","o","n",".","x","m","l">>,  \* 22
    dir_TrackerCommonData \o <<"p","i","x","f","w","d","P","l","a","q",".","x","m","l">>,  \* 23
    dir_TrackerCommonData \o <<"p","i","x","f","w","d","P","l","a","q","1","x","2",".","x","m","l">>,  \* 24
    dir_TrackerCommonData \o <<"p","i","x","f","w","d","P","l","a","q","1","x","5",".","x","m","l">>,  \* 25
    dir_TrackerCommonData \o <<"p","i","x","f","w","d","P","l","a","q","2","x","3",".","x","m","l">>,  \* 26
    dir_TrackerCommonData \o <<"p","i","x","f","w","d","P","l","a","q","2","x","4",".","x","m","l">>,  \* 27
    dir_TrackerCommonData \o <<"p","i","x","f","w","d","P","l","a","q","2","x","5",".","x","m","l">>,  \* 28
    dir_TrackerCommonData \o <<"p","i","x","f","w","d","P","a","n","e","l","B","a","s","e",".","x","m","l">>,  \* 29
    dir_TrackerCommonData \o <<"p","i","x","f","w","d","P","a","n","e","l",".","x","m","l">>,  \* 30
    dir_TrackerCommonData \o <<"p","i","x","f","w","d","B","l","a","d","e",".","x","m","l">>,  \* 31
    dir_TrackerCommonData \o <<"p","i","x","f","w","d","N","i","p","p","l","e",".","x","m","l">>,  \* 32
    dir_TrackerCommonData \o <<"p","i","x","f","w","d","D","i","s","k",".","x","m","l">>,  \* 33
    dir_TrackerCommonData \o <<"p","i","x","f","w","d","C","y","l","i","n","d","e","r",".","x","m","l">>,  \* 34
    dir_longbarrel \o <<"p","i","x","f","w","d",".","x","m","l">>,  \* 35
    dir_TrackerCommonData \o <<"p","i","x","b","a","r","m","a","t","e","r","i","a","l",".","x","m","l">>,  \* 36
    dir_TrackerCommonData \o <<"p","i","x","b","a","r","l","a","d","d","e","r",".","x","m","l">>,  \* 37
    dir_TrackerCommonData \o <<"p","i","x","b","a","r","l","a","d","d","e","r","f","u","l","l",".","x","m","l">>,  \* 38
    dir_TrackerCommonData \o <<"p","i","x","b","a","r","l","a","d","d","e","r","h","a","l","f",".","x","m","l">>,  \* 39
    dir_TrackerCommonData \o <<"p","i","x","b","a","r","l","a","y","e","r",".","x","m","l">>,  \* 40
    dir_longbarrel \o <<"p","i","x","b","a","r","l","a","y","e","r","0",".","x","m","l">>,  \* 41
    dir_longbarrel \o <<"p","i","x","b","a","r","l","a","y","e","r","1",".","x","m","l">>,  \* 42
    dir_longbarrel \o <<"p","i","x","b","a","r","l","a","y","e","r","2",".","x","m","l">>,  \* 43
    dir_longbarrel \o <<"p","i","x","b","a","r","l","a","y","e","r","3",".","x","m","l">>,  \* 44
    dir_longbarrel \o <<"p","i","x","b","a","r",".","x","m","l">>,  \* 45
    dir_longbarrel \o <<"n","e","w","t","r","a","c","k","e","r",".","x","m","l">>,  \* 46
    dir_TrackerCommonData \o <<"t","r","a","c","k","e","r","m","a","t","e","r","i","a","l",".","x","m","l">>,  \* 47
    dir_TrackerCommonData \o <<"t","r","a","c","k","e","r",".","x","m","l">>,  \* 48
    dir_TrackerCommonData \o <<"t","r","a","c","k","e","r","p","i","x","b","a","r",".","x","m","l">>,  \* 49
    dir_TrackerCommonData \o <<"t","r","a","c","k","e","r","p","i","x","f","w","d",".","x","m","l">>,  \* 50
    dir_TrackerCommonData \o <<"t","r","a","c","k","e","r","o","t","h","e","r",".","x","m","l">>,  \* 51
    dir_EcalCommonData \o <<"e","r","e","g","a","l","g","o",".","x","m","l">>,  \* 52
    dir_EcalCommonData \o <<"e","b","a","l","g","o",".","x","m","l">>,  \* 53
    dir_EcalCommonData \o <<"e","b","c","o","n",".","x","m","l">>,  \* 54
    dir_EcalCommonData \o <<"e","b","r","o","t",".","x","m","l">>,  \* 55
    dir_EcalCommonData \o <<"e","e","c","o","n",".","x","m","l">>,  \* 56
    dir_EcalCommonData \o <<"e","e","f","i","x","e","d",".","x","m","l">>,  \* 57
    dir_EcalCommonData \o <<"e","e","h","i","e","r",".","x","m","l">>,  \* 58
    dir_EcalCommonData \o <<"e","e","a","l","g","o",".","x","m","l">>,  \* 59
    dir_EcalCommonData \o <<"e","s","c","o","n",".","x","m","l">>,  \* 60
    dir_EcalCommonData \o <<"e","s","a","l","g","o",".","x","m","l">>,  \* 61
    dir_EcalCommonData \o <<"e","e","F",".","x","m","l">>,  \* 62
    dir_EcalCommonData \o <<"e","e","B",".","x","m","l">>,  \* 63
    dir_HcalCommonData \o <<"h","c","a","l","r","o","t","a","t","i","o","n","s",".","x","m","l">>,  \* 64
    dir_HcalCommonData \o <<"h","c","a","l","a","l","g","o",".","x","m","l">>,  \* 65
    dir_HcalCommonData \o <<"h","c","a","l","b","a","r","r","e","l","a","l","g","o",".","x","m","l">>,  \* 66
    dir_HcalCommonData \o <<"h","c","a","l","e","n","d","c","a","p","a","l","g","o",".","x","m","l">>,  \* 67
    dir_HcalCommonData \o <<"h","c","a","l","o","u","t","e","r","a","l","g","o",".","x","m","l">>,  \* 68
    dir_HcalCommonData \o <<"h","c","a","l","f","o","r","w","a","r","d","a","l","g","o",".","x","m","l">>,  \* 69
    dir_HcalCommonData \o <<"h","c","a","l","f","o","r","w","a","r","d","f","i","b","r","e",".","x","m","l">>,  \* 70
    dir_HcalCommonData \o <<"h","c","a","l","f","o","r","w","a","r","d","m","a","t","e","r","i","a","l",".","x","m","l">>,  \* 71
    dir_MuonCommonData \o <<"m","b","C","o","m","m","o","n",".","x","m","l">>,  \* 72
    dir_MuonCommonData \o <<"m","b","1",".","x","m","l">>,  \* 73
    dir_MuonCommonData \o <<"m","b","2",".","x","m","l">>,  \* 74
    dir_MuonCommonData \o <<"m","b","3",".","x","m","l">>,  \* 75
    dir_MuonCommonData \o <<"m","b","4",".","x","m","l">>,  \* 76
    dir_MuonCommonData \o <<"m","u","o","n","Y","o","k","e",".","x","m","l">>,  \* 77
    dir_MuonCommonData \o <<"m","f",".","x","m","l">>,  \* 78
    dir_ForwardCommonData \o <<"f","o","r","w","a","r","d",".","x","m","l">>,  \* 79
    dir_ForwardCommonData \o <<"f","o","r","w","a","r","d","s","h","i","e","l","d",".","x","m","l">>,  \* 80
    dir_ForwardCommonData \o <<"b","r","m","r","o","t","a","t","i","o","n","s",".","x","m","l">>,  \* 81
    dir_ForwardCommonData \o <<"b","r","m",".","x","m","l">>,  \* 82
    dir_ForwardCommonData \o <<"t","o","t","e","m","M","a","t","e","r","i","a","l","s",".","x","m","l">>,  \* 83
    dir_ForwardCommonData \o <<"t","o","t","e","m","R","o","t","a","t","i","o","n","s",".","x","m","l">>,  \* 84
    dir_ForwardCommonData \o <<"t","o","t","e","m","t","1",".","x","m","l">>,  \* 85
    dir_ForwardCommonData \o <<"t","o","t","e","m","t","2",".","x","m","l">>,  \* 86
    dir_ForwardCommonData \o <<"i","o","n","p","u","m","p",".","x","m","l">>,  \* 87
    dir_MuonCommonData \o <<"m","u","o","n","N","u","m","b","e","r","i","n","g",".","x","m","l">>,  \* 88
    dir_longbarrel \o <<"t","r","a","c","k","e","r","S","t","r","u","c","t","u","r","e","T","o","p","o","l","o","g","y",".","x","m","l">>,  \* 89
    dir_longbarrel \o <<"t","r","a","c","k","e","r","s","e","n","s",".","x","m","l">>,  \* 90
    dir_longbarrel \o <<"t","r","a","c","k","e","r","R","e","c","o","M","a","t","e","r","i","a","l",".","x","m","l">>,  \* 91
    dir_EcalSimData \o <<"e","c","a","l","s","e","n","s",".","x","m","l">>,  \* 92
    dir_HcalCommonData \o <<"h","c","a","l","s","e","n","s",".","x","m","l">>,  \* 93
    dir_HcalSimData \o <<"C","a","l","o","U","t","i","l",".","x","m","l">>,  \* 94
    dir_MuonSimData \o <<"m","u","o","n","S","e","n","s",".","x","m","l">>,  \* 95
    dir_DTGeometryBuilder \o <<"d","t","S","p","e","c","s","F","i","l","t","e","r",".","x","m","l">>,  \* 96
    dir_CSCGeometryBuilder \o <<"c","s","c","S","p","e","c","s","F","i","l","t","e","r",".","x","m","l">>,  \* 97
    dir_CSCGeometryBuilder \o <<"c","s","c","S","p","e","c","s",".","x","m","l">>,  \* 98
    dir_RPCGeometryBuilder \o <<"R","P","C","S","p","e","c","s",".","x","m","l">>,  \* 99
    dir_ForwardCommonData \o <<"b","r","m","s","e","n","s",".","x","m","l">>,  \* 100
    dir_HcalSimData \o <<"H","c","a","l","P","r","o","d","C","u","t","s",".","x","m","l">>,  \* 101
    dir_EcalSimData \o <<"E","c","a","l","P","r","o","d","C","u","t","s",".","x","m","l">>,  \* 102
    dir_longbarrel \o <<"t","r","a","c","k","e","r","P","r","o","d","C","u","t","s",".","x","m","l">>,  \* 103
    dir_TrackerSimData \o <<"t","r","a","c","k","e","r","P","r","o","d","C","u","t","s","B","E","A","M",".","x","m","l">>,  \* 104
    dir_MuonSimData \o <<"m","u","o","n","P","r","o","d","C","u","t","s",".","x","m","l">>,  \* 105
    dir_CMSCommonData \o <<"F","i","e","l","d","P","a","r","a","m","e","t","e","r","s",".","x","m","l">>  \* 106
    >>

(* ------------------------------------------------------------------ *)
(* What the star import of line 3 can bring in                        *)
(* ------------------------------------------------------------------ *)

(* The longest default list the import is modelled to bring in. *)
MaxDefaultLen == 1

(* Paths a default list of cmsIdealGeometryXML_cfi may hold: the standard
   materials and pixel-barrel files, which the long-barrel list replaces, and
   one file the long-barrel list keeps. *)
DefaultPool ==
    { dir_CMSCommonData \o <<"m","a","t","e","r","i","a","l","s",".","x","m","l">>,
      dir_TrackerCommonData \o <<"p","i","x","b","a","r",".","x","m","l">>,
      dir_CMSCommonData \o <<"c","m","s",".","x","m","l">> }

DefaultLists ==
    UNION {[1..n -> DefaultPool] : n \in 0..MaxDefaultLen}

(* The other parameter of the imported source, which line 5 does not name. *)
RootNodeNames == {"cms:OCMS"}

Unbound == [bound |-> FALSE, geomXMLFiles |-> <<>>, rootNodeName |-> ""]

VARIABLES
    pc,                        \* the statement to run next, then the consumer's phase
    cms,                       \* TRUE once line 1 has bound the name cms
    XMLIdealGeometryESSource,  \* the object line 3 imports and line 5 assigns to
    imported,                  \* the object as line 3 imported it (history)
    pos,                       \* how many entries the loader has read in this pass
    delivered,                 \* the entries the loader has read, in reading order
    format,                    \* the interchange format of the export in progress
    wire,                      \* the serialized list
    decoded                    \* the list deserialized from wire

vars == <<pc, cms, XMLIdealGeometryESSource, imported, pos, delivered,
          format, wire, decoded>>

consumerVars == <<pos, delivered, format, wire, decoded>>

geomXMLFiles == XMLIdealGeometryESSource.geomXMLFiles

Init ==
    /\ pc = "line1"
    /\ cms = FALSE
    /\ XMLIdealGeometryESSource = Unbound
    /\ imported = Unbound
    /\ pos = 0
    /\ delivered = <<>>
    /\ format = "none"
    /\ wire = <<>>
    /\ decoded = <<>>

(* ------------------------------------------------------------------ *)
(* Loading the file                                                   *)
(* ------------------------------------------------------------------ *)

(* line 1: import FWCore.ParameterSet.Config as cms *)
ImportConfig ==
    /\ pc = "line1"
    /\ cms' = TRUE
    /\ pc' = "line3"
    /\ UNCHANGED <<XMLIdealGeometryESSource, imported, consumerVars>>

(* line 3: from Geometry.CMSCommonData.cmsIdealGeometryXML_cfi import * *)
ImportCfi ==
    /\ pc = "line3"
    /\ \E d \in DefaultLists, r \in RootNodeNames :
          /\ XMLIdealGeometryESSource' =
                 [bound |-> TRUE, geomXMLFiles |-> d, rootNodeName |-> r]
          /\ imported' = XMLIdealGeometryESSource'
    /\ pc' = "line5"
    /\ UNCHANGED <<cms, consumerVars>>

(* XMLIdealGeometryESSource.geomXMLFiles = v: the attribute is rebound to v;
   needs the names cms (for cms.vstring) and XMLIdealGeometryESSource bound. *)
AssignAttribute(v) ==
    /\ pc = "line5"
    /\ cms
    /\ XMLIdealGeometryESSource.bound
    /\ XMLIdealGeometryESSource' =
           [XMLIdealGeometryESSource EXCEPT !.geomXMLFiles = v]
    /\ pc' = "idle"
    /\ UNCHANGED <<cms, imported, consumerVars>>

(* ------------------------------------------------------------------ *)
(* Faulty variants of the assignment of lines 5-107                   *)
(* ------------------------------------------------------------------ *)

(* L with its entries at i and j exchanged. *)
Swap(L, i, j) == [L EXCEPT ![i] = L[j], ![j] = L[i]]

(* rotations.xml (line 7) listed after cms.xml (line 9). *)
AssignRotationsAfterCms ==
    AssignAttribute(Swap(geomXMLFilesLiteral, 2, 4))

(* ionpump.xml (line 87) listed after trackersens.xml (line 90). *)
AssignVolumeAfterSens ==
    AssignAttribute(Swap(geomXMLFilesLiteral, 82, 85))

(* The first entry written as an absolute path. *)
AssignAbsolutePath ==
    AssignAttribute([geomXMLFilesLiteral EXCEPT ![1] = <<SLASH>> \o @])

(* cms.xml (line 9) listed a second time at the end. *)
AssignDuplicateEntry ==
    AssignAttribute(Append(geomXMLFilesLiteral, geomXMLFilesLiteral[4]))

(* The assignment followed by a statement that drops the first entry
   (geomXMLFiles.pop(0)) once the consumer may already be reading. *)
AssignThenPop ==
    \/ AssignAttribute(geomXMLFilesLiteral)
    \/ /\ pc \in {"idle", "reading"}
       /\ geomXMLFiles = geomXMLFilesLiteral
       /\ XMLIdealGeometryESSource' =
              [XMLIdealGeometryESSource EXCEPT !.geomXMLFiles = Tail(@)]
       /\ UNCHANGED <<pc, cms, imported, pos, delivered, format, wire, decoded>>

(* Two adjacent literals fused into one string with a line break in it. *)
AssignFusedEntries ==
    AssignAttribute(
        <<geomXMLFilesLiteral[1] \o <<NEWLINE>> \o geomXMLFilesLiteral[2]>>
        \o SubSeq(geomXMLFilesLiteral, 3, Len(geomXMLFilesLiteral)))

(* The last literal (line 106) left out. *)
AssignWithoutLast ==
    AssignAttribute(SubSeq(geomXMLFilesLiteral, 1, Len(geomXMLFilesLiteral) - 1))

(* geomXMLFiles.extend(...) in place of the assignment. *)
AssignExtending ==
    /\ pc = "line5"
    /\ cms
    /\ XMLIdealGeometryESSource.bound
    /\ XMLIdealGeometryESSource' =
           [XMLIdealGeometryESSource EXCEPT
               !.geomXMLFiles = @ \o geomXMLFilesLiteral]
    /\ pc' = "idle"
    /\ UNCHANGED <<cms, imported, pos, delivered, format, wire, decoded>>

(* pixbarlayer1.xml (line 42) and pixbarlayer2.xml (line 43) exchanged. *)
AssignLayersExchanged ==
    AssignAttribute(Swap(geomXMLFilesLiteral, 37, 38))

(* The standard pixbar.xml listed next to its long-barrel override. *)
AssignStandardNextToOverride ==
    AssignAttribute(
        SubSeq(geomXMLFilesLiteral, 1, 40)
        \o <<dir_TrackerCommonData \o <<"p","i","x","b","a","r",".","x","m","l">>>>
        \o SubSeq(geomXMLFilesLiteral, 41, Len(geomXMLFilesLiteral)))

(* lines 5-107: XMLIdealGeometryESSource.geomXMLFiles = cms.vstring(...) *)
AssignGeomXMLFiles ==
    AssignAttribute(geomXMLFilesLiteral)

(* ------------------------------------------------------------------ *)
(* The consumer: a loader reading the list front to back              *)
(* ------------------------------------------------------------------ *)

Loaded == pc \in {"idle", "reading", "delivered", "serialized", "decoded"}

StartRead ==
    /\ pc = "idle"
    /\ pos' = 0
    /\ delivered' = <<>>
    /\ pc' = IF Len(geomXMLFiles) = 0 THEN "delivered" ELSE "reading"
    /\ UNCHANGED <<cms, XMLIdealGeometryESSource, imported, format, wire, decoded>>

ReadEntry ==
    /\ pc = "reading"
    /\ pos < Len(geomXMLFiles)
    /\ delivered' = Append(delivered, geomXMLFiles[pos + 1])
    /\ pos' = pos + 1
    /\ pc' = IF pos + 1 = Len(geomXMLFiles) THEN "delivered" ELSE "reading"
    /\ UNCHANGED <<cms, XMLIdealGeometryESSource, imported, format, wire, decoded>>

(* ------------------------------------------------------------------ *)
(* The consumer: export to an interchange format and back             *)
(* ------------------------------------------------------------------ *)

Formats == {"text", "json"}

Indices(s) == [i \in 1..Len(s) |-> i]

RECURSIVE JoinRange(_, _, _, _)
(* sep.join(L[lo..hi]), for lo <= hi, by halving the range *)
JoinRange(L, sep, lo, hi) ==
    IF lo = hi THEN L[lo]
    ELSE LET mid == (lo + hi) \div 2
         IN  JoinRange(L, sep, lo, mid) \o sep \o JoinRange(L, sep, mid + 1, hi)

(* sep.join(L) *)
Join(L, sep) == IF Len(L) = 0 THEN <<>> ELSE JoinRange(L, sep, 1, Len(L))

(* s.split(c): the pieces between the occurrences of c, empty pieces kept;
   a string without c is one piece, the empty string included. *)
Split(s, c) ==
    LET IsSep(i) == s[i] = c
        seps     == SelectSeq(Indices(s), IsSep)
        from(k)  == IF k = 1 THEN 1 ELSE seps[k - 1] + 1
        to(k)    == IF k = Len(seps) + 1 THEN Len(s) ELSE seps[k] - 1
    IN  [k \in 1..(Len(seps) + 1) |-> SubSeq(s, from(k), to(k))]

(* Newline-delimited text: one entry per line, no trailing newline. *)
TextEncode(L) == Join(L, <<NEWLINE>>)

TextDecode(s) == Split(s, NEWLINE)

(* JSON: a character of a string, escaped as a JSON encoder writes it. *)
JsonEscape(c) ==
    IF c = QUOTE THEN <<BACKSLASH, QUOTE>>
    ELSE IF c = BACKSLASH THEN <<BACKSLASH, BACKSLASH>>
    ELSE IF c = NEWLINE THEN <<BACKSLASH, "n">>
    ELSE <<c>>

JsonUnescape(c) == IF c = "n" THEN NEWLINE ELSE c

JsonString(s) ==
    <<QUOTE>> \o Join([i \in 1..Len(s) |-> JsonEscape(s[i])], <<>>) \o <<QUOTE>>

(* A JSON array of strings: ["a", "b"] *)
JsonEncode(L) ==
    <<"[">> \o Join([i \in 1..Len(L) |-> JsonString(L[i])], <<",", " ">>) \o <<"]">>

RECURSIVE Escaped(_, _)
(* Whether s[i] follows a backslash that escapes it: a backslash that is not
   itself escaped. *)
Escaped(s, i) ==
    /\ i > 1
    /\ s[i - 1] = BACKSLASH
    /\ ~Escaped(s, i - 1)

(* The characters a JSON string body stands for. *)
JsonStringValue(body) ==
    LET Kept(i) == ~(body[i] = BACKSLASH /\ ~Escaped(body, i))
        kept    == SelectSeq(Indices(body), Kept)
    IN  [k \in 1..Len(kept) |->
            IF Escaped(body, kept[k]) THEN JsonUnescape(body[kept[k]])
            ELSE body[kept[k]]]

(* The strings of a JSON array of strings: the text between each opening
   quote and its closing quote, unescaped. *)
JsonDecode(s) ==
    LET IsQuote(i) == s[i] = QUOTE /\ ~Escaped(s, i)
        quotes     == SelectSeq(Indices(s), IsQuote)
    IN  [k \in 1..(Len(quotes) \div 2) |->
            JsonStringValue(SubSeq(s, quotes[2 * k - 1] + 1, quotes[2 * k] - 1))]

Encode(fmt, L) == IF fmt = "text" THEN TextEncode(L) ELSE JsonEncode(L)

Decode(fmt, s) == IF fmt = "text" THEN TextDecode(s) ELSE JsonDecode(s)

Serialize(fmt) ==
    /\ pc = "idle"
    /\ format' = fmt
    /\ wire' = Encode(fmt, geomXMLFiles)
    /\ pc' = "serialized"
    /\ UNCHANGED <<cms, XMLIdealGeometryESSource, imported, pos, delivered, decoded>>

Deserialize ==
    /\ pc = "serialized"
    /\ decoded' = Decode(format, wire)
    /\ pc' = "decoded"
    /\ UNCHANGED <<cms, XMLIdealGeometryESSource, imported, pos, delivered, format, wire>>

(* The consumer is done with what it read or decoded. *)
Release ==
    /\ pc \in {"delivered", "decoded"}
    /\ pc' = "idle"
    /\ pos' = 0
    /\ delivered' = <<>>
    /\ format' = "none"
    /\ wire' = <<>>
    /\ decoded' = <<>>
    /\ UNCHANGED <<cms, XMLIdealGeometryESSource, imported>>

Next ==
    \/ ImportConfig
    \/ ImportCfi
    \/ AssignGeomXMLFiles
    \/ StartRead
    \/ ReadEntry
    \/ \E fmt \in Formats : Serialize(fmt)
    \/ Deserialize
    \/ Release

Spec == Init /\ [][Next]_vars

(* ------------------------------------------------------------------ *)
(* Strings the properties name, as character sequences                *)
(* ------------------------------------------------------------------ *)

(* 'material' *)
MATERIAL ==
    <<"m","a","t","e","r","i","a","l">>

(* 'rot' *)
ROT ==
    <<"r","o","t">>

(* 'sens.xml' *)
SENS_XML ==
    <<"s","e","n","s",".","x","m","l">>

(* 'Sens.xml' *)
CAP_SENS_XML ==
    <<"S","e","n","s",".","x","m","l">>

(* 'ProdCuts' *)
PRODCUTS ==
    <<"P","r","o","d","C","u","t","s">>

(* 'Specs' *)
SPECS ==
    <<"S","p","e","c","s">>

(* 'CaloUtil.xml' *)
CALOUTIL_XML ==
    <<"C","a","l","o","U","t","i","l",".","x","m","l">>

(* 'FieldParameters.xml' *)
FIELDPARAMETERS_XML ==
    <<"F","i","e","l","d","P","a","r","a","m","e","t","e","r","s",".","x","m","l">>

(* 'Geometry/' *)
DIR_GEOMETRY ==
    <<"G","e","o","m","e","t","r","y","/">>

(* 'SLHCUpgradeSimulations/Geometry/data/longbarrel/materials.xml' *)
PATH_MATERIALS ==
    <<"S","L","H","C","U","p","g","r","a","d","e","S","i","m","u","l","a","t","i","o","n","s","/","G","e","o","m","e","t","r","y","/","d","a","t","a","/","l","o","n","g","b","a","r","r","e","l","/","m","a","t","e","r","i","a","l","s",".","x","m","l">>

(* 'Geometry/CMSCommonData/data/rotations.xml' *)
PATH_ROTATIONS ==
    <<"G","e","o","m","e","t","r","y","/","C","M","S","C","o","m","m","o","n","D","a","t","a","/","d","a","t","a","/","r","o","t","a","t","i","o","n","s",".","x","m","l">>

(* 'Geometry/CMSCommonData/data/cms.xml' *)
PATH_CMS ==
    <<"G","e","o","m","e","t","r","y","/","C","M","S","C","o","m","m","o","n","D","a","t","a","/","d","a","t","a","/","c","m","s",".","x","m","l">>

(* 'Geometry/CMSCommonData/data/FieldParameters.xml' *)
PATH_FIELDPARAMETERS ==
    <<"G","e","o","m","e","t","r","y","/","C","M","S","C","o","m","m","o","n","D","a","t","a","/","d","a","t","a","/","F","i","e","l","d","P","a","r","a","m","e","t","e","r","s",".","x","m","l">>

(* 'Geometry/TrackerCommonData/data/pixbarlayer.xml' *)
PATH_PIXBARLAYER ==
    <<"G","e","o","m","e","t","r","y","/","T","r","a","c","k","e","r","C","o","m","m","o","n","D","a","t","a","/","d","a","t","a","/","p","i","x","b","a","r","l","a","y","e","r",".","x","m","l">>

(* 'SLHCUpgradeSimulations/Geometry/data/longbarrel/pixbar.xml' *)
PATH_LB_PIXBAR ==
    <<"S","L","H","C","U","p","g","r","a","d","e","S","i","m","u","l","a","t","i","o","n","s","/","G","e","o","m","e","t","r","y","/","d","a","t","a","/","l","o","n","g","b","a","r","r","e","l","/","p","i","x","b","a","r",".","x","m","l">>

(* ------------------------------------------------------------------ *)
(* Kinds of entries, read off the file name                           *)
(* ------------------------------------------------------------------ *)

(* A materials or rotations file: the name holds 'material' or 'rot',
   whatever the case. *)
IsMaterialOrRotation(p) ==
    \/ Contains(Lower(BaseName(p)), MATERIAL)
    \/ Contains(Lower(BaseName(p)), ROT)

(* A sensitive-detector file: the name ends in sens.xml or Sens.xml. *)
IsSens(p) ==
    \/ EndsWith(BaseName(p), SENS_XML)
    \/ EndsWith(BaseName(p), CAP_SENS_XML)

(* A production-cut file: the name holds ProdCuts. *)
IsProdCuts(p) == Contains(BaseName(p), PRODCUTS)

(* A file of parameters only (specification parameters, filters, utility
   and field parameters): it places no volume. *)
IsParameterFile(p) ==
    \/ Contains(BaseName(p), SPECS)
    \/ BaseName(p) = CALOUTIL_XML
    \/ BaseName(p) = FIELDPARAMETERS_XML

(* Every other entry describes volumes. *)
IsVolume(p) ==
    /\ ~IsMaterialOrRotation(p)
    /\ ~IsSens(p)
    /\ ~IsProdCuts(p)
    /\ ~IsParameterFile(p)

PathChars == UpperCase \cup LowerCase \cup Digits \cup {"_", ".", SLASH}

(* A well-formed relative path: not empty, not starting with '/', made of
   path characters only, with no empty component. *)
WellFormedRelativePath(p) ==
    /\ Len(p) > 0
    /\ p[1] # SLASH
    /\ p[Len(p)] # SLASH
    /\ \A i \in 1..Len(p) : p[i] \in PathChars
    /\ \A i \in 1..(Len(p) - 1) : ~(p[i] = SLASH /\ p[i + 1] = SLASH)

StartsWith(s, prefix) ==
    /\ Len(s) >= Len(prefix)
    /\ SubSeq(s, 1, Len(prefix)) = prefix

(* The positions of the entries of L that satisfy Test. *)
Where(L, Test(_)) == {i \in 1..Len(L) : Test(L[i])}

NoRepeats(L) == Cardinality(Elems(L)) = Len(L)

(* ------------------------------------------------------------------ *)
(* C1                                                                 *)
(* ------------------------------------------------------------------ *)

(* C1, as stated: whenever the loader has read a volume entry, it has already
   read every materials or rotations entry of the list. *)
C1_MaterialsBeforeEveryVolume ==
    Loaded =>
        LET materials == Where(geomXMLFiles, IsMaterialOrRotation)
        IN  \A i \in Where(delivered, IsVolume) : \A j \in materials : j < i

(* C1, amended: the general materials and rotations files, materials.xml of
   the long barrel and rotations.xml of CMSCommonData, are the first two
   entries, so the loader has read both before it reads any volume entry. *)
C1_GeneralMaterialsAndRotationsFirst ==
    Loaded =>
        /\ geomXMLFiles[1] = PATH_MATERIALS
        /\ geomXMLFiles[2] = PATH_ROTATIONS
        /\ IsMaterialOrRotation(geomXMLFiles[1])
        /\ IsMaterialOrRotation(geomXMLFiles[2])
        /\ \A i \in Where(delivered, IsVolume) :
              /\ i > 2
              /\ delivered[1] = PATH_MATERIALS
              /\ delivered[2] = PATH_ROTATIONS

(* The loader has read cms.xml, a volume entry. *)
C1_Witness ==
    /\ pc = "reading"
    /\ \E i \in Where(delivered, IsVolume) : delivered[i] = PATH_CMS

(* ------------------------------------------------------------------ *)
(* C2                                                                 *)
(* ------------------------------------------------------------------ *)

IsOverlay(p) == IsSens(p) \/ IsProdCuts(p)

(* C2: whenever the loader has read a sensitive-detector or production-cut
   entry, it has already read every volume entry of the list: no volume
   entry has a larger index than the first such entry. *)
C2_VolumesBeforeOverlays ==
    Loaded =>
        LET volumes == Where(geomXMLFiles, IsVolume)
        IN  /\ \A i \in Where(delivered, IsOverlay) : \A j \in volumes : j < i
            /\ \A i \in Where(geomXMLFiles, IsOverlay) : \A j \in volumes : j < i

(* The loader has read a sensitive-detector entry and a production-cut entry,
   with volume entries read before them. *)
C2_Witness ==
    /\ pc = "reading"
    /\ Where(delivered, IsSens) # {}
    /\ Where(delivered, IsProdCuts) # {}
    /\ Where(delivered, IsVolume) # {}

(* ------------------------------------------------------------------ *)
(* C3                                                                 *)
(* ------------------------------------------------------------------ *)

(* C3: every entry of geomXMLFiles, and so every entry the loader reads, is a
   well-formed relative path. *)
C3_EntriesAreRelativePaths ==
    Loaded =>
        /\ \A i \in 1..Len(geomXMLFiles) : WellFormedRelativePath(geomXMLFiles[i])
        /\ \A i \in 1..Len(delivered) : WellFormedRelativePath(delivered[i])

(* The list is assigned and holds paths of several components. *)
C3_Witness ==
    /\ pc = "idle"
    /\ Len(geomXMLFiles) > 0
    /\ \A i \in 1..Len(geomXMLFiles) : Contains(geomXMLFiles[i], <<SLASH>>)

(* ------------------------------------------------------------------ *)
(* C4                                                                 *)
(* ------------------------------------------------------------------ *)

(* C4: no two entries of geomXMLFiles are the same string, and the loader
   never reads the same path twice. *)
C4_EntriesUnique ==
    Loaded =>
        /\ NoRepeats(geomXMLFiles)
        /\ NoRepeats(delivered)

(* The loader has read the whole list, more than one entry. *)
C4_Witness ==
    /\ pc = "delivered"
    /\ Len(delivered) = Len(geomXMLFiles)
    /\ Len(delivered) > 1

(* ------------------------------------------------------------------ *)
(* C5                                                                 *)
(* ------------------------------------------------------------------ *)

(* C5: once line 5 has assigned the list, no step changes it: its length, its
   order and its entries stay the same through every read and export. *)
C5_ImmutableOnceDefined ==
    [][Loaded => (Loaded' /\ geomXMLFiles' = geomXMLFiles)]_vars

(* Line 5 has run and the consumer has read the first entry of the list. *)
C5_Witness ==
    /\ pc = "reading"
    /\ pos = 1
    /\ delivered = <<geomXMLFiles[1]>>

(* ------------------------------------------------------------------ *)
(* C6                                                                 *)
(* ------------------------------------------------------------------ *)

(* C6: what is deserialized from the serialized list, as newline-delimited
   text or as a JSON array of strings, is the list: the same length and the
   same string at every index. *)
C6_RoundTrip ==
    pc = "decoded" =>
        /\ Len(decoded) = Len(geomXMLFiles)
        /\ \A i \in 1..Len(geomXMLFiles) : decoded[i] = geomXMLFiles[i]

(* The list has gone to newline-delimited text, one line per entry, and back. *)
C6_Witness ==
    /\ pc = "decoded"
    /\ format = "text"
    /\ Len(wire) > Len(geomXMLFiles)
    /\ Len(decoded) > 1

(* ------------------------------------------------------------------ *)
(* C7                                                                 *)
(* ------------------------------------------------------------------ *)

(* C7: the list the loader has read is the literal of the file: 101 entries,
   materials.xml of the long barrel first and FieldParameters.xml last, and
   the i-th entry read is the i-th literal. *)
C7_DeliveredIsTheLiteral ==
    pc = "delivered" =>
        /\ Len(delivered) = 101
        /\ Len(geomXMLFilesLiteral) = 101
        /\ delivered[1] = PATH_MATERIALS
        /\ delivered[Len(delivered)] = PATH_FIELDPARAMETERS
        /\ \A i \in 1..Len(geomXMLFilesLiteral) : delivered[i] = geomXMLFilesLiteral[i]

(* The loader has read the list to its end. *)
C7_Witness ==
    /\ pc = "delivered"
    /\ pos = Len(geomXMLFiles)
    /\ pos > 0

(* ------------------------------------------------------------------ *)
(* C8                                                                 *)
(* ------------------------------------------------------------------ *)

(* C8: whatever list the star import brought in, after line 5 geomXMLFiles is
   the literal of this file, holds no entry that only the imported list had,
   and the rest of what was imported is as it was. *)
C8_AssignmentReplacesDefault ==
    Loaded =>
        /\ geomXMLFiles = geomXMLFilesLiteral
        /\ \A e \in Elems(imported.geomXMLFiles) :
              e \notin Elems(geomXMLFilesLiteral) => e \notin Elems(geomXMLFiles)
        /\ XMLIdealGeometryESSource.rootNodeName = imported.rootNodeName
        /\ XMLIdealGeometryESSource.bound
        /\ cms

(* The import brought in a list with an entry the literal does not hold, and
   line 5 has run. *)
C8_Witness ==
    /\ pc = "idle"
    /\ \E e \in Elems(imported.geomXMLFiles) : e \notin Elems(geomXMLFilesLiteral)

(* ------------------------------------------------------------------ *)
(* C9                                                                 *)
(* ------------------------------------------------------------------ *)

(* longbarrel/pixbarlayer<n>.xml *)
PixBarLayer(n) ==
    dir_longbarrel
    \o <<"p","i","x","b","a","r","l","a","y","e","r">>
    \o <<(<<"0","1","2","3">>)[n + 1]>>
    \o <<".","x","m","l">>

(* C9: pixbarlayer0.xml to pixbarlayer3.xml of the long barrel sit at four
   consecutive indices in ascending order, directly after pixbarlayer.xml of
   TrackerCommonData and directly before pixbar.xml of the long barrel; the
   loader reads them in that order. *)
C9_PixelBarrelLayersInOrder ==
    Loaded =>
        /\ \E i \in 1..(Len(geomXMLFiles) - 5) :
              /\ geomXMLFiles[i] = PATH_PIXBARLAYER
              /\ \A n \in 0..3 : geomXMLFiles[i + 1 + n] = PixBarLayer(n)
              /\ geomXMLFiles[i + 5] = PATH_LB_PIXBAR
        /\ \A k \in 1..Len(delivered) :
              delivered[k] = PATH_LB_PIXBAR =>
                  /\ k > 5
                  /\ delivered[k - 5] = PATH_PIXBARLAYER
                  /\ \A n \in 0..3 : delivered[k - 4 + n] = PixBarLayer(n)

(* The loader has just read pixbar.xml of the long barrel. *)
C9_Witness ==
    /\ pc = "reading"
    /\ pos > 0
    /\ delivered[pos] = PATH_LB_PIXBAR

(* ------------------------------------------------------------------ *)
(* C10                                                                *)
(* ------------------------------------------------------------------ *)

IsLongBarrel(p) == StartsWith(p, dir_longbarrel)

IsStandard(p) == StartsWith(p, DIR_GEOMETRY)

(* C10: the file names of the entries are pairwise distinct: 12 entries are
   long-barrel files, and none of them shares its file name with an entry
   under Geometry/. *)
C10_OverridesReplaceStandardFiles ==
    Loaded =>
        LET names     == [i \in 1..Len(geomXMLFiles) |-> BaseName(geomXMLFiles[i])]
            overrides == Where(geomXMLFiles, IsLongBarrel)
            standard  == Where(geomXMLFiles, IsStandard)
        IN  /\ NoRepeats(names)
            /\ Cardinality(overrides) = 12
            /\ \A i \in overrides : \A j \in standard : names[i] # names[j]

(* The list is assigned and holds long-barrel files among standard ones. *)
C10_Witness ==
    /\ pc = "idle"
    /\ Where(geomXMLFiles, IsLongBarrel) # {}
    /\ Where(geomXMLFiles, IsStandard) # {}

=============================================================================
